---- MODULE Spec2Model ----
(***************************************************************************)
(* Model of conjugate_gradients.cpp: the MPI driver (main) and the         *)
(* distributed conjugate-gradient solve (conjugate_gradients, gemvP, dotP, *)
(* axpbyP).  Every MPI rank is a process with its own program counter and  *)
(* its own copy of every variable of the program.                          *)
(*                                                                         *)
(* A double is the pair <<n, d>>: the rational n/d in lowest terms with    *)
(* d > 0, or one of the IEEE special values NaN = <<0,0>>, +Inf = <<1,0>>, *)
(* -Inf = <<-1,0>>.  Arithmetic on finite values is exact (rounding and    *)
(* the sign of zero are outside the model); the special values follow      *)
(* IEEE 754.  <<0,-1>> marks an array cell that was allocated by new[]     *)
(* and never written: reading it yields an arbitrary double.               *)
(***************************************************************************)
EXTENDS Integers, Sequences, FiniteSets, TLC

\* ------------------------------------------------------------------ bounds
MaxN == 2
MaxP == 2
MaxIters == 2

\* ------------------------------------------------------ double arithmetic
NaN == <<0, 0>>
PInf == <<1, 0>>
NInf == <<-1, 0>>
Zero == <<0, 1>>
One == <<1, 1>>
Uninit == <<0, -1>>

Abs(n) == IF n < 0 THEN -n ELSE n
Sgn(n) == IF n < 0 THEN -1 ELSE IF n > 0 THEN 1 ELSE 0

RECURSIVE GCD(_, _)
GCD(a, b) == IF b = 0 THEN a ELSE GCD(b, a % b)

Norm(n, d) ==
    IF d = 0 THEN <<Sgn(n), 0>>
    ELSE LET s == IF d < 0 THEN -1 ELSE 1
             g == GCD(Abs(n), Abs(d))
         IN  <<(s * n) \div g, (s * d) \div g>>

IsNaN(a) == a = NaN
IsFinite(a) == a[2] > 0

\* Products are taken after cancelling common factors, so that the integers
\* of the model stay small; the value is the same.  Each operation comes as
\* a pair: OpV computes on two values, and Op binds its operands to their
\* values first, so that an operand expression is evaluated once.
AddV(a, b) ==
    IF IsNaN(a) \/ IsNaN(b) THEN NaN
    ELSE IF a[2] = 0 /\ b[2] = 0 THEN (IF a = b THEN a ELSE NaN)
    ELSE IF a[2] = 0 THEN a
    ELSE IF b[2] = 0 THEN b
    ELSE LET g == GCD(a[2], b[2])
         IN  Norm(a[1] * (b[2] \div g) + b[1] * (a[2] \div g),
                  (a[2] \div g) * b[2])

Add(a0, b0) == CHOOSE res \in {AddV(a, b) : a \in {a0}, b \in {b0}} : TRUE

MulV(a, b) ==
    IF a[2] = 0 \/ b[2] = 0 THEN <<Sgn(a[1]) * Sgn(b[1]), 0>>
    ELSE LET g1 == GCD(Abs(a[1]), b[2])
             g2 == GCD(Abs(b[1]), a[2])
         IN  Norm((a[1] \div g1) * (b[1] \div g2),
                  (a[2] \div g2) * (b[2] \div g1))

Mul(a0, b0) == CHOOSE res \in {MulV(a, b) : a \in {a0}, b \in {b0}} : TRUE

Neg(a) == <<-a[1], a[2]>>

DivV(a, b) ==
    IF IsNaN(a) \/ IsNaN(b) THEN NaN
    ELSE IF b[2] = 0 THEN (IF a[2] = 0 THEN NaN ELSE Zero)
    ELSE IF b[1] = 0 THEN (IF a[1] = 0 THEN NaN ELSE <<Sgn(a[1]), 0>>)
    ELSE IF a[2] = 0 THEN <<Sgn(a[1]) * Sgn(b[1]), 0>>
    ELSE Mul(a, <<Sgn(b[1]) * b[2], Abs(b[1])>>)

Div(a0, b0) == CHOOSE res \in {DivV(a, b) : a \in {a0}, b \in {b0}} : TRUE

LessV(a, b) ==
    IF IsNaN(a) \/ IsNaN(b) THEN FALSE
    ELSE IF a[2] = 0 \/ b[2] = 0
         THEN (a = NInf /\ b # NInf) \/ (b = PInf /\ a # PInf)
    ELSE LET g == GCD(a[2], b[2])
         IN  a[1] * (b[2] \div g) < b[1] * (a[2] \div g)

Less(a0, b0) == CHOOSE res \in {LessV(a, b) : a \in {a0}, b \in {b0}} : TRUE

\* sqrt(q) < t.  sqrt of a negative number or of NaN is NaN and compares
\* false; sqrt(+Inf) = +Inf; otherwise sqrt(q) >= 0 and sqrt(q) < t exactly
\* when t > 0 and q < t * t.
SqrtLess(q, t) ==
    IF IsNaN(q) \/ IsNaN(t) \/ Less(q, Zero) THEN FALSE
    ELSE IF q = PInf THEN FALSE
    ELSE Less(Zero, t) /\ Less(q, Mul(t, t))

\* What a block of memory fresh from new[] may hold: all bytes 0xFF, which
\* reads as NaN, or all bytes zero, which reads as 0.0.
Garbage == {NaN, Zero}

\* ------------------------------------------------------------- kernels
\* The loop of dot / dotP: acc plus the products of the cells [i, end).
RECURSIVE DotRange(_, _, _, _, _)
DotRange(u, v, i, end, acc) ==
    IF i >= end THEN acc
    ELSE DotRange(u, v, i + 1, end, Add(acc, Mul(u[i], v[i])))

\* axpby / axpbyP: y[i] = alpha * x[i] + beta * y[i]
axpbyP(a, u, b, v, n) ==
    [i \in 0 .. n - 1 |-> Add(Mul(a, u[i]), Mul(b, v[i]))]

RECURSIVE RowSum(_, _, _, _, _, _)
RowSum(A, u, row, c, ncols, acc) ==
    IF c >= ncols THEN acc
    ELSE RowSum(A, u, row, c + 1, ncols,
                Add(acc, Mul(A[row * ncols + c], u[c])))

\* gemvP lines 108-115 on one rank: the values this rank computes for the rows
\* [start_row, end_row), yv being what the reads of y[r] returned.
gemvBand(a, A, u, b, yv, start_row, end_row, ncols) ==
    [row \in start_row .. end_row - 1 |->
        Add(Mul(b, yv[row]), Mul(a, RowSum(A, u, row, 0, ncols, Zero)))]

\* ------------------------------------------------------------- input files
\* A file of read_matrix_from_file: absent, or a header (rows, cols) and
\* rows * cols doubles, row-major.
MatKinds == {"identity", "dense"}
RhsKinds == {"zeros", "unit"}

MatrixData(kind, n) ==
    [k \in 0 .. n * n - 1 |->
        LET row == k \div n
            col == k % n
        IN  IF kind = "identity" THEN (IF row = col THEN One ELSE Zero)
            ELSE IF row = col THEN <<2, 1>>
            ELSE One]

RhsData(kind, n) ==
    [k \in 0 .. n - 1 |->
        IF kind = "zeros" THEN Zero ELSE IF k = 0 THEN One ELSE Zero]

NoData == [k \in {} |-> Zero]

MatrixFiles ==
    {[exists |-> FALSE, rows |-> 0, cols |-> 0, data |-> NoData]}
    \cup {[exists |-> TRUE, rows |-> 1, cols |-> 2, data |-> [k \in 0 .. 1 |-> One]]}
    \cup {[exists |-> TRUE, rows |-> n, cols |-> n, data |-> MatrixData(k, n)] :
            n \in 1 .. MaxN, k \in MatKinds}

RhsFiles ==
    {[exists |-> FALSE, rows |-> 0, cols |-> 0, data |-> NoData]}
    \cup {[exists |-> TRUE, rows |-> 1, cols |-> 2, data |-> [k \in 0 .. 1 |-> One]]}
    \cup {[exists |-> TRUE, rows |-> n, cols |-> 1, data |-> RhsData(k, n)] :
            n \in 1 .. MaxN, k \in RhsKinds}

RelErrors == {Zero, <<1, 10>>}

\* --------------------------------------------------------------- state
VARIABLES
    nprocs,         \* size of MPI_COMM_WORLD
    max_iters,      \* argv[4], the same on every rank
    rel_error,      \* argv[5], the same on every rank
    pc,             \* per rank: the statement the rank is at
    exit_code,      \* per rank: value returned by main (-1 while running)
    matrix_rows, matrix_cols, size, matrix, rhs,   \* per rank: main's locals
    bcast_sent,     \* number of MPI_Bcast calls the root has made
    sol_file,       \* content written by write_matrix_to_file
    x, r, p, Ap,    \* per rank: the vectors of conjugate_gradients
    bb, rr, rr_new, alpha, beta, num_iters,        \* per rank: its scalars
    coll,           \* per rank: the collectives entered inside the solve,
                    \*   each with the buffer the rank contributed
    heap_overflow,  \* per rank: gemvP wrote past the end of local_y
    uninit_read,    \* per rank: a never-written cell of Ap was read
    Ap_written,     \* per rank: the cells of Ap the program has written
    iters_done,     \* per rank: loop bodies entered
    test_ok,        \* per rank: result of the last convergence test
    tests_failed,   \* per rank: convergence tests that failed
    p_start,        \* per rank: p when the current loop body was entered
    rr_prev,        \* per rank: rr when the current loop body was entered
    x_upd,          \* per rank: x as written by the last x update
    report          \* per rank: the line printed by conjugate_gradients

cfgVars == <<nprocs, max_iters, rel_error>>
mainVars == <<exit_code, matrix_rows, matrix_cols, size, matrix, rhs,
              bcast_sent, sol_file>>
vecVars == <<x, r, p, Ap>>
scalVars == <<bb, rr, rr_new, alpha, beta, num_iters>>
obsVars == <<uninit_read, Ap_written, iters_done, test_ok, tests_failed, p_start, rr_prev, x_upd, report>>
vars == <<cfgVars, pc, mainVars, vecVars, scalVars, coll, heap_overflow, obsVars>>

Ranks == 0 .. nprocs - 1

NoReport == <<"none", 0>>

Init ==
    /\ nprocs \in 1 .. MaxP
    /\ max_iters \in 0 .. MaxIters
    /\ rel_error \in RelErrors
    /\ pc = [rk \in Ranks |-> IF rk = 0 THEN "read" ELSE "bcast_dims"]
    /\ exit_code = [rk \in Ranks |-> -1]
    /\ matrix_rows = [rk \in Ranks |-> 0]
    /\ matrix_cols = [rk \in Ranks |-> 0]
    /\ size = [rk \in Ranks |-> 0]
    /\ matrix = [rk \in Ranks |-> NoData]
    /\ rhs = [rk \in Ranks |-> NoData]
    /\ bcast_sent = 0
    /\ sol_file = NoData
    /\ x = [rk \in Ranks |-> NoData]
    /\ r = [rk \in Ranks |-> NoData]
    /\ p = [rk \in Ranks |-> NoData]
    /\ Ap = [rk \in Ranks |-> NoData]
    /\ bb = [rk \in Ranks |-> Uninit]
    /\ rr = [rk \in Ranks |-> Uninit]
    /\ rr_new = [rk \in Ranks |-> Uninit]
    /\ alpha = [rk \in Ranks |-> Uninit]
    /\ beta = [rk \in Ranks |-> Uninit]
    /\ num_iters = [rk \in Ranks |-> 0]
    /\ coll = [rk \in Ranks |-> << >>]
    /\ heap_overflow = [rk \in Ranks |-> FALSE]
    /\ uninit_read = [rk \in Ranks |-> FALSE]
    /\ Ap_written = [rk \in Ranks |-> {}]
    /\ iters_done = [rk \in Ranks |-> 0]
    /\ test_ok = [rk \in Ranks |-> "none"]
    /\ tests_failed = [rk \in Ranks |-> 0]
    /\ p_start = [rk \in Ranks |-> NoData]
    /\ rr_prev = [rk \in Ranks |-> Uninit]
    /\ x_upd = [rk \in Ranks |-> NoData]
    /\ report = [rk \in Ranks |-> NoReport]

\* ---------------------------------------------------------------- main
\* The exit code lines 232-260 return for the two input files, 0 when all
\* the checks pass.
InputError(mf, rf) ==
    IF ~mf.exists THEN 1
    ELSE IF ~rf.exists THEN 2
    ELSE IF mf.rows # mf.cols THEN 3
    ELSE IF rf.rows # mf.rows THEN 4
    ELSE IF rf.cols # 1 THEN 5
    ELSE 0

\* Lines 217-263, rank 0 only: read both files and validate them.
ReadInputs(rk) ==
    /\ pc[rk] = "read"
    /\ rk = 0
    /\ \E mf \in MatrixFiles, rf \in RhsFiles :
         LET err == InputError(mf, rf) IN
         /\ matrix' = IF err = 1 THEN matrix ELSE [matrix EXCEPT ![rk] = mf.data]
         /\ matrix_rows' = IF err = 1 THEN matrix_rows
                           ELSE [matrix_rows EXCEPT ![rk] = mf.rows]
         /\ matrix_cols' = IF err = 1 THEN matrix_cols
                           ELSE [matrix_cols EXCEPT ![rk] = mf.cols]
         /\ rhs' = IF err \in {1, 2} THEN rhs ELSE [rhs EXCEPT ![rk] = rf.data]
         /\ size' = IF err = 0 THEN [size EXCEPT ![rk] = mf.rows] ELSE size
         /\ pc' = [pc EXCEPT ![rk] = IF err = 0 THEN "bcast_dims" ELSE "exit"]
         /\ exit_code' = IF err = 0 THEN exit_code
                         ELSE [exit_code EXCEPT ![rk] = err]
    /\ UNCHANGED <<cfgVars, bcast_sent, sol_file, vecVars, scalVars, coll,
                   heap_overflow, obsVars>>

\* Lines 266-268 (k = 3 broadcasts: matrix_rows, matrix_cols, size) and
\* lines 270-278 (k = 5: then matrix and rhs), all rooted at rank 0.  The
\* root sends and goes on; another rank returns from its k-th broadcast once
\* the root has made its k-th, with the root's buffer in its own.
Bcast(rk) ==
    /\ pc[rk] \in {"bcast_dims", "bcast_data"}
    /\ LET k == IF pc[rk] = "bcast_dims" THEN 3 ELSE 5 IN
       /\ rk # 0 => bcast_sent >= k
       /\ bcast_sent' = IF rk = 0 THEN k ELSE bcast_sent
       /\ matrix_rows' = IF k = 3 THEN [matrix_rows EXCEPT ![rk] = matrix_rows[0]]
                         ELSE matrix_rows
       /\ matrix_cols' = IF k = 3 THEN [matrix_cols EXCEPT ![rk] = matrix_cols[0]]
                         ELSE matrix_cols
       /\ size' = IF k = 3 THEN [size EXCEPT ![rk] = size[0]] ELSE size
       /\ matrix' = IF k = 5 THEN [matrix EXCEPT ![rk] = matrix[0]] ELSE matrix
       /\ rhs' = IF k = 5 THEN [rhs EXCEPT ![rk] = rhs[0]] ELSE rhs
       /\ pc' = [pc EXCEPT ![rk] = IF k = 3 THEN "bcast_data" ELSE "cg_init"]
    /\ UNCHANGED <<cfgVars, exit_code, sol_file, vecVars, scalVars, coll,
                   heap_overflow, obsVars>>

\* ------------------------------------------------------- collectives
\* The rank waits in its c-th collective of the solve, c = Len(coll[rk]).
\* It returns once every rank of the communicator has entered its c-th
\* collective and all of them made the same call.
CollReady(rk) ==
    LET c == Len(coll[rk]) IN
    \A j \in Ranks : /\ Len(coll[j]) >= c
                     /\ coll[j][c].kind = coll[rk][c].kind

RECURSIVE SumContrib(_, _, _)
SumContrib(c, j, acc) ==
    IF j >= nprocs THEN acc
    ELSE SumContrib(c, j + 1, Add(acc, coll[j][c].data[0]))

\* MPI_Allreduce(&local_sum, &global_sum, 1, MPI_DOUBLE, MPI_SUM): what the
\* rank finds in global_sum.
AllreduceLocalOnly(rk, c) == coll[rk][c].data[0]
Allreduce(rk, c) == SumContrib(c, 0, Zero)

\* MPI_Allgather(local_y, count, ..., y, count, ...): y after the call.  The
\* first count doubles of every rank's buffer land at [j*count, (j+1)*count);
\* the cells of y from nprocs*count on keep what they held.
AllgatherOwnBandOnly(rk, c, count, y) ==
    [i \in DOMAIN y |->
        IF i < nprocs * count /\ i \div count = rk
        THEN coll[rk][c].data[i % count] ELSE y[i]]
Allgather(rk, c, count, y) ==
    [i \in DOMAIN y |->
        IF i < nprocs * count
        THEN coll[i \div count][c].data[i % count] ELSE y[i]]

\* ---------------------------------------------------- reads of new[] memory
\* The cells among `cells` that were never written.
UninitIn(v, cells) == {i \in cells : v[i] = Uninit}
\* The content of a fresh block is fixed by the first read of one of its
\* cells: the fills that read can find.
Fills(fresh) == IF fresh = {} THEN {Uninit} ELSE Garbage
\* v with its never-written cells holding `fill`.
ReadCells(v, fill) == [i \in DOMAIN v |-> IF v[i] = Uninit THEN fill ELSE v[i]]

\* -------------------------------------------------------------- dotP
\* dotP lines 127-129: the segment of the rank.
DotStart(rk, n) == rk * (n \div nprocs)
DotEnd(rk, n) ==
    IF rk = nprocs - 1 THEN n ELSE DotStart(rk, n) + (n \div nprocs)

DotCells(rk, n) == DotStart(rk, n) .. DotEnd(rk, n) - 1

\* dotP lines 131-135: local_sum over the segment of the rank.
LocalSum(rk, u, v, n) == DotRange(u, v, DotStart(rk, n), DotEnd(rk, n), Zero)

\* dotP line 138: the rank enters MPI_Allreduce with local_sum.
EnterAllreduce(rk, local_sum) ==
    coll' = [coll EXCEPT ![rk] =
                Append(@, [kind |-> "allreduce",
                           data |-> [k \in 0 .. 0 |-> local_sum]])]

\* ------------------------------------------------- conjugate_gradients
\* Lines 148-160: allocate r, p, Ap, set x = 0, r = b, p = b, and call
\* dotP(b, b, size) up to its entry into MPI_Allreduce.
CgInit(rk) ==
    /\ pc[rk] = "cg_init"
    /\ pc' = [pc EXCEPT ![rk] = "dot_bb_wait"]
    /\ x' = [x EXCEPT ![rk] = [i \in 0 .. size[rk] - 1 |-> Zero]]
    /\ r' = [r EXCEPT ![rk] = [i \in 0 .. size[rk] - 1 |-> rhs[rk][i]]]
    /\ p' = [p EXCEPT ![rk] = [i \in 0 .. size[rk] - 1 |-> rhs[rk][i]]]
    /\ Ap' = [Ap EXCEPT ![rk] = [i \in 0 .. size[rk] - 1 |-> Uninit]]
    /\ EnterAllreduce(rk, LocalSum(rk, rhs[rk], rhs[rk], size[rk]))
    /\ UNCHANGED <<cfgVars, mainVars, scalVars, heap_overflow, obsVars>>

\* Lines 169-170 after rr_new = dotP(r, r): beta from the old rr, then rr.
BetaAfterOverwrite(rr_old, rr_n) == Div(rr_n, rr_n)
BetaOf(rr_old, rr_n) == Div(rr_n, rr_old)

\* The return from MPI_Allreduce and what the caller does with the sum:
\* lines 160-163 (bb, rr, num_iters = 1), line 165 (alpha),
\* lines 168-170 (rr_new, beta, rr).
DotReturn(rk) ==
    /\ pc[rk] \in {"dot_bb_wait", "dot_pAp_wait", "dot_rr_wait"}
    /\ CollReady(rk)
    /\ \E global_sum \in {Allreduce(rk, Len(coll[rk]))} :
       \/ /\ pc[rk] = "dot_bb_wait"
          /\ pc' = [pc EXCEPT ![rk] = "loop"]
          /\ bb' = [bb EXCEPT ![rk] = global_sum]
          /\ rr' = [rr EXCEPT ![rk] = global_sum]
          /\ num_iters' = [num_iters EXCEPT ![rk] = 1]
          /\ UNCHANGED <<rr_new, alpha, beta>>
       \/ /\ pc[rk] = "dot_pAp_wait"
          /\ pc' = [pc EXCEPT ![rk] = "upd_x"]
          /\ alpha' = [alpha EXCEPT ![rk] = Div(rr[rk], global_sum)]
          /\ UNCHANGED <<bb, rr, rr_new, beta, num_iters>>
       \/ /\ pc[rk] = "dot_rr_wait"
          /\ pc' = [pc EXCEPT ![rk] = "test"]
          /\ rr_new' = [rr_new EXCEPT ![rk] = global_sum]
          /\ beta' = [beta EXCEPT ![rk] = BetaOf(rr[rk], global_sum)]
          /\ rr' = [rr EXCEPT ![rk] = global_sum]
          /\ UNCHANGED <<bb, alpha, num_iters>>
    /\ UNCHANGED <<cfgVars, mainVars, vecVars, coll, heap_overflow, obsVars>>

\* Line 163: the loop condition num_iters <= max_iters.
LoopCond(n, m) == n <= m

\* gemvP lines 102-105.
LocalNumRows(n) == n \div nprocs
StartRow(rk, n) == rk * LocalNumRows(n)
EndRow(rk, n) == IF rk = nprocs - 1 THEN n ELSE (rk + 1) * LocalNumRows(n)

\* gemvP line 114: does row r write past the end of local_y?
PastEnd(index, count) == index >= count

\* Line 163, the loop condition, and when it holds line 164,
\* gemvP(1.0, A, p, 0.0, Ap, size, size), lines 97-117 up to the entry into
\* MPI_Allgather.  local_y has LocalNumRows cells: a write at an index
\* r - start_row past them lands outside the buffer.
LoopGemv(rk) ==
    /\ pc[rk] = "loop"
    /\ IF LoopCond(num_iters[rk], max_iters)
       THEN LET n == size[rk]
                count == LocalNumRows(n)
                start_row == StartRow(rk, n)
                end_row == EndRow(rk, n)
                fresh == UninitIn(Ap[rk], start_row .. end_row - 1)
            IN  /\ pc' = [pc EXCEPT ![rk] = "gemv_wait"]
                /\ \E fill \in Fills(fresh) :
                   \E y \in {ReadCells(Ap[rk], fill)} :
                   \E band \in {gemvBand(One, matrix[rk], p[rk], Zero, y,
                                         start_row, end_row, n)} :
                     LET local_y == [k \in 0 .. count - 1 |-> band[start_row + k]]
                     IN  /\ coll' = [coll EXCEPT ![rk] =
                                Append(@, [kind |-> "allgather", data |-> local_y])]
                         /\ Ap' = [Ap EXCEPT ![rk] = y]
                /\ heap_overflow' = [heap_overflow EXCEPT ![rk] =
                       @ \/ \E row \in start_row .. end_row - 1 :
                                PastEnd(row - start_row, count)]
                /\ uninit_read' = [uninit_read EXCEPT ![rk] = @ \/ fresh # {}]
                /\ iters_done' = [iters_done EXCEPT ![rk] = @ + 1]
                /\ p_start' = [p_start EXCEPT ![rk] = p[rk]]
                /\ rr_prev' = [rr_prev EXCEPT ![rk] = rr[rk]]
       ELSE /\ pc' = [pc EXCEPT ![rk] = "report"]
            /\ UNCHANGED <<Ap, coll, heap_overflow, uninit_read, iters_done,
                           p_start, rr_prev>>
    /\ UNCHANGED <<cfgVars, mainVars, x, r, p, scalVars, Ap_written, test_ok,
                   tests_failed, x_upd, report>>

\* gemvP lines 117-119: the return from MPI_Allgather into y = Ap, then
\* delete[] local_y.  After a write past the end of local_y the heap is
\* corrupt: delete[] either goes through or aborts the process.  Then line
\* 165, dotP(p, Ap, size), up to its entry into MPI_Allreduce.
GemvReturn(rk) ==
    /\ pc[rk] = "gemv_wait"
    /\ CollReady(rk)
    /\ \E n \in {size[rk]} :
       \E y \in {Allgather(rk, Len(coll[rk]), LocalNumRows(n), Ap[rk])} :
       LET fresh == UninitIn(y, DotCells(rk, n))
       IN  /\ \E abort \in (IF heap_overflow[rk] THEN BOOLEAN ELSE {FALSE}) :
                IF abort
                THEN /\ pc' = [pc EXCEPT ![rk] = "aborted"]
                     /\ Ap' = [Ap EXCEPT ![rk] = y]
                     /\ UNCHANGED <<coll, uninit_read>>
                ELSE /\ pc' = [pc EXCEPT ![rk] = "dot_pAp_wait"]
                     /\ \E fill \in Fills(fresh) :
                        \E yr \in {ReadCells(y, fill)} :
                          /\ Ap' = [Ap EXCEPT ![rk] = yr]
                          /\ EnterAllreduce(rk, LocalSum(rk, p[rk], yr, n))
                          /\ uninit_read' = [uninit_read EXCEPT ![rk] =
                                 @ \/ fresh # {}]
    /\ Ap_written' = [Ap_written EXCEPT ![rk] =
           @ \cup {i \in 0 .. size[rk] - 1 : i < nprocs * LocalNumRows(size[rk])}]
    /\ UNCHANGED <<cfgVars, mainVars, x, r, p, scalVars, heap_overflow,
                   iters_done, test_ok, tests_failed, p_start, rr_prev, x_upd, report>>

\* Line 166: axpbyP(alpha, p, 1.0, x, size).
UpdX(rk) ==
    /\ pc[rk] = "upd_x"
    /\ pc' = [pc EXCEPT ![rk] = "upd_r"]
    /\ x' = [x EXCEPT ![rk] = axpbyP(alpha[rk], p[rk], One, x[rk], size[rk])]
    /\ x_upd' = [x_upd EXCEPT ![rk] = x'[rk]]
    /\ UNCHANGED <<cfgVars, mainVars, r, p, Ap, scalVars, coll, heap_overflow,
                   uninit_read, Ap_written, iters_done, test_ok, tests_failed, p_start,
                   rr_prev, report>>

\* Line 167, axpbyP(-alpha, Ap, 1.0, r, size), then line 168,
\* dotP(r, r, size), up to its entry into MPI_Allreduce.
UpdR(rk) ==
    /\ pc[rk] = "upd_r"
    /\ pc' = [pc EXCEPT ![rk] = "dot_rr_wait"]
    /\ LET n == size[rk]
           fresh == UninitIn(Ap[rk], 0 .. n - 1)
       IN  \E fill \in Fills(fresh) :
           \E y \in {ReadCells(Ap[rk], fill)} :
           \E r_new \in {axpbyP(Neg(alpha[rk]), y, One, r[rk], n)} :
                 /\ r' = [r EXCEPT ![rk] = r_new]
                 /\ Ap' = [Ap EXCEPT ![rk] = y]
                 /\ EnterAllreduce(rk, LocalSum(rk, r_new, r_new, n))
                 /\ uninit_read' = [uninit_read EXCEPT ![rk] = @ \/ fresh # {}]
    /\ UNCHANGED <<cfgVars, mainVars, x, p, scalVars, heap_overflow,
                   Ap_written, iters_done, test_ok, tests_failed, p_start, rr_prev, x_upd,
                   report>>

\* Line 171: sqrt(rr / bb) < rel_error.
Converged(rr_v, bb_v, tol) == SqrtLess(Div(rr_v, bb_v), tol)

\* Lines 171-175: the convergence test; break when it succeeds, else line
\* 174, axpbyP(1.0, r, beta, p, size), and the num_iters++ of line 163.
TestUpdP(rk) ==
    /\ pc[rk] = "test"
    /\ IF Converged(rr[rk], bb[rk], rel_error)
       THEN /\ pc' = [pc EXCEPT ![rk] = "report"]
            /\ test_ok' = [test_ok EXCEPT ![rk] = "pass"]
            /\ UNCHANGED <<p, num_iters, tests_failed>>
       ELSE /\ pc' = [pc EXCEPT ![rk] = "loop"]
            /\ test_ok' = [test_ok EXCEPT ![rk] = "fail"]
            /\ tests_failed' = [tests_failed EXCEPT ![rk] = @ + 1]
            /\ p' = [p EXCEPT ![rk] =
                       axpbyP(One, r[rk], beta[rk], p[rk], size[rk])]
            /\ num_iters' = [num_iters EXCEPT ![rk] = @ + 1]
    /\ UNCHANGED <<cfgVars, mainVars, x, r, Ap, bb, rr, rr_new, alpha, beta,
                   coll, heap_overflow, uninit_read, Ap_written, iters_done,
                   p_start, rr_prev, x_upd, report>>

\* Lines 181-187: the line conjugate_gradients prints.
ReportLineStrict(rk, n, m) ==
    IF rk = 0
    THEN (IF n < m THEN <<"Converged", n>> ELSE <<"Did not converge", m>>)
    ELSE NoReport
ReportLine(rk, n, m) ==
    IF rk = 0
    THEN (IF n <= m THEN <<"Converged", n>> ELSE <<"Did not converge", m>>)
    ELSE NoReport

\* Lines 177-188: free the work vectors, report, return to main.
Report(rk) ==
    /\ pc[rk] = "report"
    /\ report' = [report EXCEPT ![rk] = ReportLine(rk, num_iters[rk], max_iters)]
    /\ pc' = [pc EXCEPT ![rk] = "write"]
    /\ UNCHANGED <<cfgVars, mainVars, vecVars, scalVars, coll, heap_overflow,
                   uninit_read, Ap_written, iters_done, test_ok, tests_failed, p_start, rr_prev, x_upd>>

\* Lines 284-306: rank 0 writes sol (exit code 6 when the file cannot be
\* opened); every rank returns 0 otherwise.
WriteSol(rk) ==
    /\ pc[rk] = "write"
    /\ \E opened \in (IF rk = 0 THEN BOOLEAN ELSE {TRUE}) :
         /\ sol_file' = IF rk = 0 /\ opened THEN x[rk] ELSE sol_file
         /\ exit_code' = [exit_code EXCEPT ![rk] = IF opened THEN 0 ELSE 6]
    /\ pc' = [pc EXCEPT ![rk] = "exit"]
    /\ UNCHANGED <<cfgVars, matrix_rows, matrix_cols, size, matrix, rhs,
                   bcast_sent, vecVars, scalVars, coll, heap_overflow, obsVars>>


Next ==
    \/ \E rk \in Ranks : ReadInputs(rk)
    \/ \E rk \in Ranks : Bcast(rk)
    \/ \E rk \in Ranks : CgInit(rk)
    \/ \E rk \in Ranks : DotReturn(rk)
    \/ \E rk \in Ranks : LoopGemv(rk)
    \/ \E rk \in Ranks : GemvReturn(rk)
    \/ \E rk \in Ranks : UpdX(rk)
    \/ \E rk \in Ranks : UpdR(rk)
    \/ \E rk \in Ranks : TestUpdP(rk)
    \/ \E rk \in Ranks : Report(rk)
    \/ \E rk \in Ranks : WriteSol(rk)

Spec == Init /\ [][Next]_vars

\* The ranks are processes that keep running: as long as some rank can take
\* a step, a step is taken.  Every rank takes finitely many steps (the loop
\* is bounded by max_iters), so no rank that can run is left behind for ever.
FairSpec == Spec /\ WF_vars(Next)

\* ------------------------------------------------------------ properties
\* The rank has returned from conjugate_gradients to main.
Returned(rk) ==
    \/ pc[rk] = "write"
    \/ pc[rk] = "exit" /\ exit_code[rk] \in {0, 6}

\* The rank has left the loop of conjugate_gradients.
AfterLoop(rk) == pc[rk] = "report" \/ Returned(rk)

\* N is a multiple of P (N is known once rank 0 has read the files).
Divisible == size[0] > 0 /\ size[0] % nprocs = 0

ZeroVector(n) == [i \in 0 .. n - 1 |-> Zero]
IsZeroVector(v) == \A i \in DOMAIN v : v[i] = Zero

\* The product A * u, row by row.
MatVec(A, u, n) == [row \in 0 .. n - 1 |-> RowSum(A, u, row, 0, n, Zero)]

\* Both ranks stand at the same iteration boundary: the end of the
\* initialisation (num_iters = 1) or of a loop iteration, or past the loop.
SameBoundary(i, j) ==
    \/ pc[i] = "loop" /\ pc[j] = "loop" /\ num_iters[i] = num_iters[j]
    \/ AfterLoop(i) /\ AfterLoop(j)

\* C1: with identical A and b on entry and N a multiple of P, any two ranks
\* at the same iteration boundary (end of the initialisation, end of a loop
\* iteration, return) hold equal x, r, p, rr and bb.
C1_Replication ==
    \A i, j \in Ranks :
        (/\ Divisible
         /\ matrix[i] = matrix[j] /\ rhs[i] = rhs[j]
         /\ SameBoundary(i, j))
        => /\ x[i] = x[j]
           /\ r[i] = r[j]
           /\ p[i] = p[j]
           /\ rr[i] = rr[j]
           /\ bb[i] = bb[j]

\* Two ranks of a divisible run stand at the end of their first loop
\* iteration with a finite, non-zero x.
C1_Witness ==
    /\ nprocs >= 2
    /\ Divisible
    /\ pc[0] = "loop" /\ pc[1] = "loop"
    /\ num_iters[0] = 2 /\ num_iters[1] = 2
    /\ IsFinite(x[0][0]) /\ x[0][0] # Zero

\* C3: when b is all zeros the solve returns without executing a loop
\* iteration, with x = 0.
C3_ZeroRhs ==
    \A rk \in Ranks :
        (Returned(rk) /\ IsZeroVector(rhs[rk]))
        => /\ iters_done[rk] = 0
           /\ x[rk] = ZeroVector(size[rk])

\* C4: the loop runs at most max_iters iterations and ends converged (the
\* test succeeded in iteration k <= max_iters) or exhausted (the test failed
\* in all max_iters iterations); rank 0 alone reports, and reports the
\* outcome that happened.
C4_Outcome ==
    \A rk \in Ranks :
        /\ iters_done[rk] <= max_iters
        /\ AfterLoop(rk) =>
             \/ /\ test_ok[rk] = "pass"
                /\ iters_done[rk] \in 1 .. max_iters
                /\ tests_failed[rk] = iters_done[rk] - 1
             \/ /\ test_ok[rk] # "pass"
                /\ iters_done[rk] = max_iters
                /\ tests_failed[rk] = max_iters
        /\ Returned(rk) =>
             report[rk] =
                IF rk # 0 THEN NoReport
                ELSE IF test_ok[rk] = "pass"
                     THEN <<"Converged", iters_done[rk]>>
                     ELSE <<"Did not converge", max_iters>>

\* Rank 0 returned having converged in the last allowed iteration, and
\* another rank returned too.
C4_Witness ==
    /\ nprocs >= 2
    /\ Returned(0) /\ Returned(1)
    /\ max_iters = 2
    /\ test_ok[0] = "pass"
    /\ iters_done[0] = max_iters
    /\ report[0] = <<"Converged", 2>>

\* The collective calls of conjugate_gradients in program order: one
\* all-sum, then per iteration an all-gather and two all-sums.
ExpectedKind(k) ==
    IF k = 1 THEN "allreduce"
    ELSE IF (k - 2) % 3 = 0 THEN "allgather" ELSE "allreduce"

\* Every rank issues that sequence, any two ranks the same one; a rank that
\* returned leaves no rank in a collective it did not enter, and two ranks
\* that returned made the same calls and hold the same num_iters.
LockStep ==
    \A i, j \in Ranks :
        Divisible =>
            /\ \A k \in 1 .. Len(coll[i]) : coll[i][k].kind = ExpectedKind(k)
            /\ AfterLoop(i) => Len(coll[j]) <= Len(coll[i])
            /\ (AfterLoop(i) /\ AfterLoop(j)) =>
                  /\ Len(coll[i]) = Len(coll[j])
                  /\ num_iters[i] = num_iters[j]
                  /\ test_ok[i] = test_ok[j]

AllReturned == \A rk \in Ranks : Returned(rk)

LoopOrder ==
    {<<"loop", "gemv_wait">>, <<"gemv_wait", "dot_pAp_wait">>,
     <<"gemv_wait", "aborted">>, <<"dot_pAp_wait", "upd_x">>,
     <<"upd_x", "upd_r">>, <<"upd_r", "dot_rr_wait">>,
     <<"dot_rr_wait", "test">>, <<"test", "loop">>, <<"test", "report">>,
     <<"loop", "report">>}

LoopPcs == {"loop", "gemv_wait", "dot_pAp_wait", "upd_x", "upd_r",
            "dot_rr_wait", "test"}

OrderedStep ==
    \A rk \in Ranks :
        pc[rk] \in LoopPcs =>
            /\ pc'[rk] # pc[rk] => <<pc[rk], pc'[rk]>> \in LoopOrder
            /\ alpha'[rk] # alpha[rk] => pc[rk] = "dot_pAp_wait"
            /\ x'[rk] # x[rk] => pc[rk] = "upd_x"
            /\ r'[rk] # r[rk] => pc[rk] = "upd_r"
            /\ (rr'[rk] # rr[rk] \/ beta'[rk] # beta[rk]) => pc[rk] = "dot_rr_wait"
            /\ p'[rk] # p[rk] => (pc[rk] = "test" /\ pc'[rk] = "loop")

AfterTest ==
    \A rk \in Ranks :
        /\ (AfterLoop(rk) /\ test_ok[rk] = "pass") =>
              /\ p[rk] = p_start[rk]
              /\ x[rk] = x_upd[rk]
              /\ Converged(rr[rk], bb[rk], rel_error)
        /\ ((pc[rk] = "loop" \/ AfterLoop(rk)) /\ test_ok[rk] = "fail") =>
              /\ p[rk] = axpbyP(One, r[rk], Div(rr[rk], rr_prev[rk]),
                                p_start[rk], size[rk])
              /\ x[rk] = x_upd[rk]
              /\ ~Converged(rr[rk], bb[rk], rel_error)

C7_TestOrdering == [](AfterTest) /\ [][OrderedStep]_vars

\* A rank returned converged in its second iteration: the test failed once
\* (p was updated with beta = rr_prev / bb, neither 0 nor 1) and then
\* succeeded.
C7_Witness ==
    \E rk \in Ranks :
        /\ Returned(rk)
        /\ test_ok[rk] = "pass"
        /\ iters_done[rk] = 2
        /\ tests_failed[rk] = 1
        /\ IsFinite(rr_prev[rk]) /\ rr_prev[rk] # Zero /\ rr_prev[rk] # bb[rk]
        /\ x[rk] = x_upd[rk]

IsIdentity(A, n) == n >= 1 /\ A = MatrixData("identity", n)

\* C5: with A the identity, 0 <= rel_tol < 1 and max_iters >= 1, the solve
\* returns x = b, converged in exactly one iteration.
C5_Identity ==
    \A rk \in Ranks :
        (/\ Returned(rk)
         /\ IsIdentity(matrix[rk], size[rk])
         /\ max_iters >= 1
         /\ ~Less(rel_error, Zero) /\ Less(rel_error, One))
        => /\ x[rk] = rhs[rk]
           /\ test_ok[rk] = "pass"
           /\ iters_done[rk] = 1

\* The rank is between the return of gemvP and the next update of p.
AfterGemv(rk) == pc[rk] \in {"dot_pAp_wait", "upd_x", "upd_r", "dot_rr_wait", "test"}

\* C6: when N is a multiple of P, after gemvP(1, A, p, 0, Ap) returns every
\* entry of Ap equals the entry of A * p, and two ranks that returned from
\* the same call hold the same Ap.
C6_MatVec ==
    \A i, j \in Ranks :
        (Divisible /\ AfterGemv(i)) =>
            /\ Ap[i] = MatVec(matrix[i], p[i], size[i])
            /\ (AfterGemv(j) /\ iters_done[j] = iters_done[i]) => Ap[j] = Ap[i]

\* C8: for every N and P no rank writes local_y at an index past its
\* length, and after the gather every entry of y in [0, N) has been written.
C8_LocalY ==
    \A rk \in Ranks :
        /\ ~heap_overflow[rk]
        /\ AfterGemv(rk) => Ap_written[rk] = 0 .. size[rk] - 1

\* Rank 0 left main with one of the input-error codes 1..5.
InputRejected == pc[0] = "exit" /\ exit_code[0] \in 1 .. 5

AllExited == \A rk \in Ranks : pc[rk] = "exit"

\* C9: when rank 0 returns with an input-error code, every rank eventually
\* terminates: none stays blocked in a broadcast rank 0 never enters.
C9_InputErrors == InputRejected ~> AllExited

\* C10: no cell of Ap is read before the solve has written it, and the Ap
\* the first gemvP returns is A * p whatever the fresh block held.
C10_NoUninitRead ==
    \A rk \in Ranks :
        /\ ~uninit_read[rk]
        /\ (Divisible /\ iters_done[rk] = 1 /\ pc[rk] = "dot_pAp_wait") =>
              Ap[rk] = MatVec(matrix[rk], p[rk], size[rk])

====
